---- MODULE Spec2Model ----
(***************************************************************************)
(* Mood pattern analysis of the EchoBloom backend:                         *)
(*   - analyze_mood_pattern         (backend/app/routers/whisperer.py)     *)
(*   - analyze_day_of_week_patterns (backend/app/routers/patterns.py)      *)
(*   - get_next_occurrence          (backend/app/routers/patterns.py)      *)
(*   - calculate_current_trajectory (backend/app/routers/simulate.py)      *)
(* and of the endpoints that call them (predict_challenging_days,          *)
(* check_patterns, simulate_futures) with their narrative generators.      *)
(*                                                                         *)
(* Number representation.  A mood score is a real in [-1.0, 1.0]; it is    *)
(* held here as an integer number of hundredths (-0.2 is -20).  A mean     *)
(* sum(scores) / len(scores) is held as an integer number of               *)
(* 1/(100 * scale) where scale is a common multiple of every length the    *)
(* divisor can take, so that the division is exact and every comparison    *)
(* of the code is an exact comparison of rationals.  Rounding of IEEE      *)
(* doubles is not represented: the Python functions agree with these       *)
(* definitions on every series of the two specifications below except      *)
(* where a mean equals a threshold exactly, where the rounding of the sum  *)
(* decides the comparison.                                                 *)
(*                                                                         *)
(* A datetime is held as a number of days, day 0 a Monday.                 *)
(***************************************************************************)
EXTENDS Integers, Sequences, FiniteSets, TLC

VARIABLES
    echoes,             \* the list of Echo rows handed to the analyzer
    pattern,            \* the dict returned by analyze_mood_pattern
    pattern_analysis,   \* the dict returned by analyze_day_of_week_patterns
    now,                \* the clock read by datetime.now() and datetime.utcnow()
    target_day,         \* the day_name handed to get_next_occurrence
    next_date,          \* [day |-> the datetime returned by get_next_occurrence]
    activities,         \* the completed_at of the activities handed to
                        \* calculate_current_trajectory
    current_state,      \* the dict returned by calculate_current_trajectory
    simulation_response,\* the outcome of generate_scenario_simulations
    profile,            \* the UserProfile row of the user, None if there is none
    route,              \* the path of the endpoint called last
    response,           \* what that endpoint returned or raised
    predictions,        \* the list of the dicts returned by generate_shield_story
    nudge_response      \* the dict returned by generate_whisperer_nudge

\* the variables of the endpoints
endpoint_vars == <<profile, route, response, predictions, nudge_response>>

vars == <<echoes, pattern, pattern_analysis, now, target_day, next_date,
          activities, current_state, simulation_response, endpoint_vars>>

\* No call has returned yet.
None == [none |-> TRUE]

\* no endpoint has been called
NoRequest ==
    /\ profile = None
    /\ route = ""
    /\ response = None
    /\ predictions = <<>>
    /\ nudge_response = None

---------------------------------------------------------------------------
(* Bounds of the model *)

\* longest series handed to analyze_mood_pattern
MaxEchoes == 8

\* longest series handed to analyze_day_of_week_patterns
MaxDayEchoes == 6

\* latest day the clock shows when get_next_occurrence is called
MaxToday == 13

\* longest series handed to calculate_current_trajectory
MaxTrajectoryEchoes == 29

\* largest number of activities handed to calculate_current_trajectory
MaxActivities == 2

\* longest series the four analyzers are invoked on again and again
MaxEngineEchoes == 3

\* longest series of the day-of-week analysis on three weekdays
MaxWeekdayEchoes == 14

\* mood scores (hundredths) the whisperer series are drawn from
MoodScores == {-100, -21, -20, 100}

\* emotion_tags of the i-th newest echo of a whisperer series
EmotionTagsAt(i) ==
    CASE i % 3 = 1 -> <<"sad", "tired">>
      [] i % 3 = 2 -> <<>>
      [] OTHER     -> <<"anxious", "anxious">>

\* echoes the day-of-week series are drawn from.  created_at is a day number,
\* day 0 a Monday: a low Monday and a fair Monday a week later, a low and a
\* fair echo on one Tuesday and on one Wednesday.  mood_score in hundredths.
DayEchoes ==
    { [created_at |-> 0, mood_score |-> -30], [created_at |-> 7, mood_score |-> 10],
      [created_at |-> 1, mood_score |-> -30], [created_at |-> 1, mood_score |-> 10],
      [created_at |-> 2, mood_score |-> -30], [created_at |-> 2, mood_score |-> 10] }

---------------------------------------------------------------------------
(* Arithmetic helpers *)

Min(a, b) == IF a <= b THEN a ELSE b

Max(a, b) == IF a >= b THEN a ELSE b

RECURSIVE Gcd(_, _)
Gcd(a, b) == IF b = 0 THEN a ELSE Gcd(b, a % b)

\* least common multiple of 1..n
RECURSIVE LcmUpTo(_)
LcmUpTo(n) == IF n <= 1 THEN 1 ELSE (LcmUpTo(n - 1) * n) \div Gcd(LcmUpTo(n - 1), n)

\* Python sum() over a list
RECURSIVE sum(_)
sum(s) == IF Len(s) = 0 THEN 0 ELSE Head(s) + sum(Tail(s))

\* Python s[:n]
Prefix(s, n) == SubSeq(s, 1, Min(n, Len(s)))

---------------------------------------------------------------------------
(* whisperer.py: analyze_mood_pattern *)

\* len(echoes) < 3
MIN_ECHOES == 3

\* echoes[:7]
WINDOW == 7

\* score < -0.2, recent_avg < -0.2
LOW_MOOD == -20

\* low_mood_days >= 3
LOW_DAYS_TRIGGER == 3

\* min(low_mood_days, 5)
MAX_SEVERITY == 5

\* avg_mood < -0.3
PERSISTENT_LOW == -30

\* mood_scores[:3], / 3
RECENT == 3

\* recent_avg < avg_mood - 0.3
DROP_MARGIN == 30

\* severity of persistent_low
PERSISTENT_SEVERITY == 3

\* severity of sudden_drop
DROP_SEVERITY == 4

\* Means of the window are held in units of 1/(100 * WindowScale).
WindowScale == LcmUpTo(WINDOW)

\* faulty variant: the guard lets a series of 2 echoes through
insufficient_data_below_two(es) == Len(es) < MIN_ECHOES - 1

\* faulty variant: only the echoes of the 7 days before the clock count
insufficient_data_by_clock(es) ==
    Cardinality({i \in 1..Len(es) : es[i].created_at >= now - WINDOW}) < MIN_ECHOES

insufficient_data(es) == Len(es) < MIN_ECHOES

\* faulty variant: the series is not cut to its 7 newest echoes
recent_echoes_uncapped(es) == es

recent_echoes(es) == Prefix(es, WINDOW)

mood_scores(es) == [i \in 1..Len(recent_echoes(es)) |-> recent_echoes(es)[i].mood_score]

IsLowMood(score) == score < LOW_MOOD

\* sum(1 for score in mood_scores if score < -0.2)
low_mood_days(scores) == Cardinality({i \in 1..Len(scores) : IsLowMood(scores[i])})

avg_mood(scores) == (sum(scores) * WindowScale) \div Len(scores)

recent_avg(scores) == (sum(Prefix(scores, RECENT)) * WindowScale) \div RECENT

\* faulty variant: "or" in place of "and"
sudden_drop_either(scores) ==
    \/ recent_avg(scores) < LOW_MOOD * WindowScale
    \/ recent_avg(scores) < avg_mood(scores) - DROP_MARGIN * WindowScale

sudden_drop(scores) ==
    /\ recent_avg(scores) < LOW_MOOD * WindowScale
    /\ recent_avg(scores) < avg_mood(scores) - DROP_MARGIN * WindowScale

\* faulty variant: the number of low days is not capped
declining_severity_uncapped(low) == low

declining_severity(low) == Min(low, MAX_SEVERITY)

\* faulty variant: the average is tested before the number of low days
detect_average_first(scores, n_recent) ==
    IF avg_mood(scores) < PERSISTENT_LOW * WindowScale
    THEN [needs_intervention |-> TRUE, pattern_type |-> "persistent_low",
          severity |-> PERSISTENT_SEVERITY]
    ELSE IF low_mood_days(scores) >= LOW_DAYS_TRIGGER
    THEN [needs_intervention |-> TRUE, pattern_type |-> "declining_trend",
          severity |-> declining_severity(low_mood_days(scores))]
    ELSE IF n_recent >= RECENT /\ sudden_drop(scores)
    THEN [needs_intervention |-> TRUE, pattern_type |-> "sudden_drop",
          severity |-> DROP_SEVERITY]
    ELSE [needs_intervention |-> FALSE, pattern_type |-> "stable", severity |-> 0]

\* faulty variant: the sudden drop is tested before the average
detect_drop_first(scores, n_recent) ==
    IF low_mood_days(scores) >= LOW_DAYS_TRIGGER
    THEN [needs_intervention |-> TRUE, pattern_type |-> "declining_trend",
          severity |-> declining_severity(low_mood_days(scores))]
    ELSE IF n_recent >= RECENT /\ sudden_drop(scores)
    THEN [needs_intervention |-> TRUE, pattern_type |-> "sudden_drop",
          severity |-> DROP_SEVERITY]
    ELSE IF avg_mood(scores) < PERSISTENT_LOW * WindowScale
    THEN [needs_intervention |-> TRUE, pattern_type |-> "persistent_low",
          severity |-> PERSISTENT_SEVERITY]
    ELSE [needs_intervention |-> FALSE, pattern_type |-> "stable", severity |-> 0]

\* the if / elif / elif chain and the defaults it overrides
detect(scores, n_recent) ==
    IF low_mood_days(scores) >= LOW_DAYS_TRIGGER
    THEN [needs_intervention |-> TRUE, pattern_type |-> "declining_trend",
          severity |-> declining_severity(low_mood_days(scores))]
    ELSE IF avg_mood(scores) < PERSISTENT_LOW * WindowScale
    THEN [needs_intervention |-> TRUE, pattern_type |-> "persistent_low",
          severity |-> PERSISTENT_SEVERITY]
    ELSE IF n_recent >= RECENT /\ sudden_drop(scores)
    THEN [needs_intervention |-> TRUE, pattern_type |-> "sudden_drop",
          severity |-> DROP_SEVERITY]
    ELSE [needs_intervention |-> FALSE, pattern_type |-> "stable", severity |-> 0]

\* faulty variant: the tags of the whole window are carried
recent_emotions_whole_window(es) ==
    [i \in 1..Len(recent_echoes(es)) |-> recent_echoes(es)[i].emotion_tags]

recent_emotions(es) ==
    [i \in 1..Len(Prefix(recent_echoes(es), RECENT)) |-> recent_echoes(es)[i].emotion_tags]

analyze_mood_pattern(es) ==
    IF insufficient_data(es)
    THEN [needs_intervention |-> FALSE, pattern_type |-> "insufficient_data",
          severity |-> 0]
    ELSE LET d == detect(mood_scores(es), Len(recent_echoes(es)))
         IN  [needs_intervention |-> d.needs_intervention,
              pattern_type       |-> d.pattern_type,
              severity           |-> d.severity,
              low_mood_days      |-> low_mood_days(mood_scores(es)),
              avg_mood           |-> avg_mood(mood_scores(es)),
              recent_emotions    |-> recent_emotions(es)]

---------------------------------------------------------------------------
(* Specification of the whisperer analysis: a series of at most MaxEchoes  *)
(* echoes, newest first, is handed to analyze_mood_pattern.                *)

WhispererSeries(m) ==
    [i \in 1..Len(m) |-> [mood_score |-> m[i], emotion_tags |-> EmotionTagsAt(i)]]

InitWhisperer ==
    /\ \E n \in 0..MaxEchoes : \E m \in [1..n -> MoodScores] :
          echoes = WhispererSeries(m)
    /\ pattern = None
    /\ pattern_analysis = None
    /\ now = 0
    /\ target_day = "Monday"
    /\ next_date = None
    /\ activities = <<>>
    /\ current_state = None
    /\ simulation_response = None
    /\ NoRequest

AnalyzeMoodPattern ==
    /\ pattern' = analyze_mood_pattern(echoes)
    /\ UNCHANGED <<echoes, pattern_analysis, now, target_day, next_date,
                   activities, current_state, simulation_response, endpoint_vars>>

NextWhisperer == AnalyzeMoodPattern

SpecWhisperer == InitWhisperer /\ [][NextWhisperer]_vars

---------------------------------------------------------------------------
(* Properties of analyze_mood_pattern, stated on the series itself.  A     *)
(* mean m of the n window records with sum S is compared by its sum:       *)
(* m < -0.3 is S < -30 * n in hundredths.                                  *)

\* analyze_mood_pattern has returned
Analyzed == pattern # None

\* number of records the rules look at
WindowLen == Min(7, Len(echoes))

WindowSum == sum([i \in 1..WindowLen |-> echoes[i].mood_score])

FirstThreeSum == sum([i \in 1..Min(3, Len(echoes)) |-> echoes[i].mood_score])

\* lowMoodDays: records with mood_score < -0.2 among the first 7
LowMoodDays == Cardinality({i \in 1..WindowLen : echoes[i].mood_score < -20})

\* rule a: lowMoodDays >= 3
RuleA == LowMoodDays >= 3

\* rule b: avgMood < -0.3
RuleB == WindowSum < -30 * WindowLen

\* rule c: firstThreeAvg < -0.2 and firstThreeAvg < avgMood - 0.3
RuleC ==
    /\ FirstThreeSum < -20 * 3
    /\ FirstThreeSum * WindowLen < 3 * WindowSum - 30 * 3 * WindowLen

\* C1: a series of fewer than 3 records yields needs_intervention = false,
\* pattern_type = insufficient_data and severity = 0, whatever its scores.
C1_InsufficientData ==
    (Analyzed /\ Len(echoes) < 3) =>
        /\ pattern.needs_intervention = FALSE
        /\ pattern.pattern_type = "insufficient_data"
        /\ pattern.severity = 0

\* two very low records, still insufficient data
C1_Witness ==
    /\ Analyzed
    /\ Len(echoes) = 2
    /\ \A i \in 1..2 : echoes[i].mood_score = -100
    /\ pattern.pattern_type = "insufficient_data"

\* C2: the severity returned is an integer between 0 and 5, for every series.
C2_SeverityRange == Analyzed => pattern.severity \in 0..5

\* more than 5 low days in the window, severity capped
C2_Witness ==
    /\ Analyzed
    /\ Len(echoes) >= 7
    /\ LowMoodDays = 7
    /\ pattern.severity = 5

\* C3: with at least 3 records and lowMoodDays >= 3 the report is
\* declining_trend, needs_intervention, severity min(lowMoodDays, 5),
\* whatever the window average and the first-three average are.
C3_DecliningTrend ==
    (Analyzed /\ Len(echoes) >= 3 /\ RuleA) =>
        /\ pattern.pattern_type = "declining_trend"
        /\ pattern.needs_intervention = TRUE
        /\ pattern.severity = Min(LowMoodDays, 5)

\* 7 records, exactly 4 low, the average below -0.3 as well: severity 4
C3_Witness ==
    /\ Analyzed
    /\ Len(echoes) = 7
    /\ LowMoodDays = 4
    /\ RuleB
    /\ pattern.pattern_type = "declining_trend"
    /\ pattern.severity = 4

\* C4: with at least 3 records, lowMoodDays < 3 and a window mean below -0.3
\* the report is persistent_low, needs_intervention, severity 3, also when
\* the sudden-drop condition holds.
C4_PersistentLow ==
    (Analyzed /\ Len(echoes) >= 3 /\ ~RuleA /\ RuleB) =>
        /\ pattern.pattern_type = "persistent_low"
        /\ pattern.needs_intervention = TRUE
        /\ pattern.severity = 3

\* persistent_low returned although the sudden-drop condition holds too
C4_Witness ==
    /\ Analyzed
    /\ Len(echoes) >= 3
    /\ ~RuleA
    /\ RuleB
    /\ RuleC
    /\ pattern.pattern_type = "persistent_low"

---------------------------------------------------------------------------
(* patterns.py: analyze_day_of_week_patterns *)

\* len(scores) >= 2, stats['count'] >= 2
MIN_SAMPLES == 2

\* stats['avg_mood'] < -0.1
CHALLENGING == -10

\* stats['count'] / 5
FULL_CONFIDENCE_SAMPLES == 5

\* the confidence 1.0, in hundredths
FULL_CONFIDENCE == 100

days_of_week ==
    <<"Monday", "Tuesday", "Wednesday", "Thursday", "Friday", "Saturday", "Sunday">>

\* datetime.weekday() of day number d
weekday(d) == d % 7

\* created_at.strftime('%A')
day_name(created_at) == days_of_week[weekday(created_at) + 1]

\* Means of a weekday are held in units of 1/(100 * DayScale).
DayScale == LcmUpTo(MaxDayEchoes)

\* keys of day_moods, in the order the loop inserts them
RECURSIVE day_keys(_)
day_keys(es) ==
    IF Len(es) = 0 THEN <<>>
    ELSE LET before == day_keys(SubSeq(es, 1, Len(es) - 1))
             day    == day_name(es[Len(es)].created_at)
         IN  IF \E i \in 1..Len(before) : before[i] = day
             THEN before
             ELSE Append(before, day)

\* day_moods[day], in the order the loop appends
RECURSIVE day_scores(_, _)
day_scores(es, day) ==
    IF Len(es) = 0 THEN <<>>
    ELSE LET before == day_scores(SubSeq(es, 1, Len(es) - 1), day)
             echo   == es[Len(es)]
         IN  IF day_name(echo.created_at) = day
             THEN Append(before, echo.mood_score)
             ELSE before

\* the defaultdict after the first loop, as the list of its items
day_moods(es) ==
    LET keys == day_keys(es)
    IN  [i \in 1..Len(keys) |-> [day |-> keys[i], scores |-> day_scores(es, keys[i])]]

RECURSIVE min(_)
min(s) == IF Len(s) = 1 THEN s[1] ELSE Min(Head(s), min(Tail(s)))

RECURSIVE max(_)
max(s) == IF Len(s) = 1 THEN s[1] ELSE Max(Head(s), max(Tail(s)))

\* faulty variant: one data point is enough
enough_samples_one(scores) == Len(scores) >= MIN_SAMPLES - 1

enough_samples(scores) == Len(scores) >= MIN_SAMPLES

day_stats(item) ==
    [day      |-> item.day,
     avg_mood |-> (sum(item.scores) * DayScale) \div Len(item.scores),
     count    |-> Len(item.scores),
     min_mood |-> min(item.scores),
     max_mood |-> max(item.scores)]

\* the dict day_averages, as the list of its items
day_averages(es) ==
    LET HasEnough(item) == enough_samples(item.scores)
        kept == SelectSeq(day_moods(es), HasEnough)
    IN  [i \in 1..Len(kept) |-> day_stats(kept[i])]

\* faulty variant: an average of exactly -0.1 counts as challenging
is_challenging_inclusive(stats) ==
    stats.avg_mood <= CHALLENGING * DayScale /\ stats.count >= MIN_SAMPLES

is_challenging(stats) ==
    stats.avg_mood < CHALLENGING * DayScale /\ stats.count >= MIN_SAMPLES

\* faulty variant: the confidence is not capped at 1.0
confidence_uncapped(count) == (count * FULL_CONFIDENCE) \div FULL_CONFIDENCE_SAMPLES

\* min(stats['count'] / 5, 1.0), in hundredths
confidence(count) ==
    Min((count * FULL_CONFIDENCE) \div FULL_CONFIDENCE_SAMPLES, FULL_CONFIDENCE)

challenging_day(stats) ==
    [day         |-> stats.day,
     avg_mood    |-> stats.avg_mood,
     confidence  |-> confidence(stats.count),
     sample_size |-> stats.count]

\* challenging_days before it is sorted
challenging_days(averages) ==
    LET kept == SelectSeq(averages, is_challenging)
    IN  [i \in 1..Len(kept) |-> challenging_day(kept[i])]

\* faulty variant: x put before the entries of equal avg_mood (not stable)
insort_before_equal(sorted, x) ==
    LET k == Cardinality({i \in 1..Len(sorted) : sorted[i].avg_mood < x.avg_mood})
    IN  SubSeq(sorted, 1, k) \o <<x>> \o SubSeq(sorted, k + 1, Len(sorted))

\* x put behind every entry of the sorted list whose avg_mood is not larger
insort(sorted, x) ==
    LET k == Cardinality({i \in 1..Len(sorted) : sorted[i].avg_mood <= x.avg_mood})
    IN  SubSeq(sorted, 1, k) \o <<x>> \o SubSeq(sorted, k + 1, Len(sorted))

\* faulty variant: the list is left in the order of the dict
sort_by_avg_mood_skipped(s) == s

\* list.sort(key=lambda x: x['avg_mood']): stable, ascending
RECURSIVE sort_by_avg_mood(_)
sort_by_avg_mood(s) ==
    IF Len(s) = 0 THEN <<>>
    ELSE insort(sort_by_avg_mood(SubSeq(s, 1, Len(s) - 1)), s[Len(s)])

analyze_day_of_week_patterns(es) ==
    LET averages == day_averages(es)
        sorted   == sort_by_avg_mood(challenging_days(averages))
    IN  [day_patterns     |-> averages,
         challenging_days |-> sorted,
         has_patterns     |-> Len(sorted) > 0]

---------------------------------------------------------------------------
(* Specification of the day-of-week analysis: a series of at most          *)
(* MaxDayEchoes echoes, in the order the query returns them, is handed to  *)
(* analyze_day_of_week_patterns.                                           *)

InitPatterns ==
    /\ \E n \in 0..MaxDayEchoes : echoes \in [1..n -> DayEchoes]
    /\ pattern = None
    /\ pattern_analysis = None
    /\ now = 0
    /\ target_day = "Monday"
    /\ next_date = None
    /\ activities = <<>>
    /\ current_state = None
    /\ simulation_response = None
    /\ NoRequest

AnalyzeDayOfWeekPatterns ==
    /\ pattern_analysis' = analyze_day_of_week_patterns(echoes)
    /\ UNCHANGED <<echoes, pattern, now, target_day, next_date,
                   activities, current_state, simulation_response, endpoint_vars>>

NextPatterns == AnalyzeDayOfWeekPatterns

SpecPatterns == InitPatterns /\ [][NextPatterns]_vars

---------------------------------------------------------------------------
(* Properties of analyze_day_of_week_patterns, stated on the series        *)
(* itself.  A weekday's mean is compared by its sum: mean < -0.1 is        *)
(* sum < -10 * count in hundredths.                                        *)

\* analyze_day_of_week_patterns has returned
DaysAnalyzed == pattern_analysis # None

WeekdayNames == {days_of_week[i] : i \in 1..7}

\* the records of the series that fall on weekday w
RecordsOn(w) == {i \in 1..Len(echoes) : days_of_week[(echoes[i].created_at % 7) + 1] = w}

RECURSIVE SumOver(_)
SumOver(I) ==
    IF I = {} THEN 0
    ELSE LET i == CHOOSE j \in I : TRUE IN echoes[i].mood_score + SumOver(I \ {i})

\* the entries of day_patterns for weekday w
DayStatsOf(w) ==
    {i \in 1..Len(pattern_analysis.day_patterns) : pattern_analysis.day_patterns[i].day = w}

\* the entries of challenging_days for weekday w
ChallengingOf(w) ==
    {i \in 1..Len(pattern_analysis.challenging_days) :
        pattern_analysis.challenging_days[i].day = w}

\* C7: day_patterns holds an entry for a weekday if and only if at least 2
\* records of the series fall on it, and the entry's count is the number of
\* those records.
C7_DayStatNeedsTwo ==
    DaysAnalyzed =>
        \A w \in WeekdayNames :
            /\ Cardinality(DayStatsOf(w)) = (IF Cardinality(RecordsOn(w)) >= 2 THEN 1 ELSE 0)
            /\ \A i \in DayStatsOf(w) :
                 pattern_analysis.day_patterns[i].count = Cardinality(RecordsOn(w))

\* one weekday with a single record and no entry next to one with two dates
\* in different weeks and an entry
C7_Witness ==
    /\ DaysAnalyzed
    /\ Cardinality(RecordsOn("Tuesday")) = 1
    /\ DayStatsOf("Tuesday") = {}
    /\ \E i, j \in RecordsOn("Monday") : echoes[i].created_at # echoes[j].created_at
    /\ DayStatsOf("Monday") # {}

C9_Confidence ==
    DaysAnalyzed =>
        \A i \in 1..Len(pattern_analysis.challenging_days) :
            LET c == pattern_analysis.challenging_days[i]
                n == Cardinality(RecordsOn(c.day))
            IN  /\ c.sample_size = n
                /\ c.confidence = (IF n >= 5 THEN 100 ELSE 20 * n)
                /\ c.confidence >= 40
                /\ c.confidence <= 100
                /\ \A k \in 2..n : confidence(k) <= c.confidence
                /\ n = 2 => c.confidence = 40

\* a challenging day with more than 5 records
C9_Witness ==
    /\ DaysAnalyzed
    /\ \E i \in 1..Len(pattern_analysis.challenging_days) :
         /\ pattern_analysis.challenging_days[i].sample_size > 5
         /\ pattern_analysis.challenging_days[i].confidence = 100

\* C10: challenging_days is in ascending order of mean mood: each entry's
\* mean is at most the next entry's.
C10_Ascending ==
    DaysAnalyzed =>
        \A i \in 1..(Len(pattern_analysis.challenging_days) - 1) :
            pattern_analysis.challenging_days[i].avg_mood
                <= pattern_analysis.challenging_days[i + 1].avg_mood

\* two challenging days of different means, the one met first in the series
\* listed last
C10_Witness ==
    /\ DaysAnalyzed
    /\ Len(pattern_analysis.challenging_days) >= 2
    /\ pattern_analysis.challenging_days[1].avg_mood
         < pattern_analysis.challenging_days[2].avg_mood
    /\ day_name(echoes[1].created_at) = pattern_analysis.challenging_days[2].day

\* rank of a weekday name in alphabetical order
AlphaRank(w) ==
    CASE w = "Friday"    -> 1
      [] w = "Monday"    -> 2
      [] w = "Saturday"  -> 3
      [] w = "Sunday"    -> 4
      [] w = "Thursday"  -> 5
      [] w = "Tuesday"   -> 6
      [] w = "Wednesday" -> 7

\* index of the first record of the series that falls on weekday w
FirstSeen(w) == CHOOSE i \in RecordsOn(w) : \A j \in RecordsOn(w) : i <= j

\* C11 as stated: of two challenging days of equal mean the one with more
\* samples ranks first, and with equal count the alphabetically smaller
\* weekday name ranks first, whatever the order of the records.
C11_TieBreakCountThenName ==
    DaysAnalyzed =>
        \A i \in 1..(Len(pattern_analysis.challenging_days) - 1) :
            LET a == pattern_analysis.challenging_days[i]
                b == pattern_analysis.challenging_days[i + 1]
            IN  a.avg_mood = b.avg_mood =>
                    \/ a.sample_size > b.sample_size
                    \/ /\ a.sample_size = b.sample_size
                       /\ AlphaRank(a.day) < AlphaRank(b.day)

\* C11 amended: of two challenging days of equal mean, the one whose weekday
\* occurs first in the input series ranks first (the sort compares the mean
\* alone and keeps the order of the dict), so the ranking under ties follows
\* the order of the records.
C11_TiesKeepFirstSeenOrder ==
    DaysAnalyzed =>
        \A i \in 1..(Len(pattern_analysis.challenging_days) - 1) :
            LET a == pattern_analysis.challenging_days[i]
                b == pattern_analysis.challenging_days[i + 1]
            IN  a.avg_mood = b.avg_mood => FirstSeen(a.day) < FirstSeen(b.day)

\* two days of equal mean: the one ranked first has fewer samples and the
\* alphabetically larger name
C11_Witness ==
    /\ DaysAnalyzed
    /\ Len(pattern_analysis.challenging_days) >= 2
    /\ LET a == pattern_analysis.challenging_days[1]
           b == pattern_analysis.challenging_days[2]
       IN  /\ a.avg_mood = b.avg_mood
           /\ a.sample_size < b.sample_size
           /\ AlphaRank(a.day) > AlphaRank(b.day)

---------------------------------------------------------------------------
(* patterns.py: get_next_occurrence *)

\* (target_day_index - current_day_index) % 7, days_ahead = 7
DAYS_PER_WEEK == 7

\* days_of_week.index(day_name)
index(name) == CHOOSE i \in 0..(Len(days_of_week) - 1) : days_of_week[i + 1] = name

\* faulty variant: the difference is taken the other way round
days_ahead_backwards(name, today) ==
    LET ahead == (weekday(today) - index(name)) % DAYS_PER_WEEK
    IN  IF ahead = 0 THEN DAYS_PER_WEEK ELSE ahead

\* faulty variant: today is returned when it is the target weekday
days_ahead_same_day(name, today) == (index(name) - weekday(today)) % DAYS_PER_WEEK

\* days until the next occurrence
days_ahead(name, today) ==
    LET ahead == (index(name) - weekday(today)) % DAYS_PER_WEEK
    IN  IF ahead = 0 THEN DAYS_PER_WEEK ELSE ahead

\* today + timedelta(days=days_ahead), today = datetime.now()
get_next_occurrence(name, today) == today + days_ahead(name, today)

---------------------------------------------------------------------------
(* Specification of get_next_occurrence: called with a weekday name on     *)
(* one of the days 0..MaxToday.                                            *)

InitNextOccurrence ==
    /\ echoes = <<>>
    /\ pattern = None
    /\ pattern_analysis = None
    /\ now \in 0..MaxToday
    /\ target_day \in {days_of_week[i] : i \in 1..Len(days_of_week)}
    /\ next_date = None
    /\ activities = <<>>
    /\ current_state = None
    /\ simulation_response = None
    /\ NoRequest

GetNextOccurrence ==
    /\ next_date' = [day |-> get_next_occurrence(target_day, now)]
    /\ UNCHANGED <<echoes, pattern, pattern_analysis, now, target_day,
                   activities, current_state, simulation_response, endpoint_vars>>

NextNextOccurrence == GetNextOccurrence

SpecNextOccurrence == InitNextOccurrence /\ [][NextNextOccurrence]_vars

---------------------------------------------------------------------------
(* Properties of get_next_occurrence.  Monday is 0 ... Sunday is 6, and    *)
(* day 0 is a Monday.                                                      *)

\* get_next_occurrence has returned
Occurred == next_date # None

\* index of the target weekday, Monday 0 .. Sunday 6
TargetIndex ==
    CASE target_day = "Monday"    -> 0
      [] target_day = "Tuesday"   -> 1
      [] target_day = "Wednesday" -> 2
      [] target_day = "Thursday"  -> 3
      [] target_day = "Friday"    -> 4
      [] target_day = "Saturday"  -> 5
      [] target_day = "Sunday"    -> 6

\* index of today's weekday
TodayIndex == now % 7

\* number of days from today to the returned date
Offset == next_date.day - now

\* C12: when today's weekday is the target weekday, the returned date is
\* exactly 7 days after today.
C12_SameDayNextWeek ==
    (Occurred /\ TodayIndex = TargetIndex) => next_date.day = now + 7

\* called on a Wednesday of the second week for Wednesday
C12_Witness ==
    /\ Occurred
    /\ now = 9
    /\ target_day = "Wednesday"
    /\ next_date.day = 16

\* C13 as stated: the offset is never 0, it is 1 when today matches the
\* target weekday and (target_index - today_index) mod 7 otherwise, and the
\* returned date falls on the target weekday.
C13_OffsetOneWhenSameDay ==
    Occurred =>
        /\ Offset # 0
        /\ Offset = (IF TodayIndex = TargetIndex THEN 1
                     ELSE (TargetIndex - TodayIndex) % 7)
        /\ next_date.day % 7 = TargetIndex

\* C13 amended: the offset is never 0, it is 7 when today matches the target
\* weekday and (target_index - today_index) mod 7 otherwise, so it lies in
\* 1..7, and the returned date falls on the target weekday.
C13_OffsetSevenWhenSameDay ==
    Occurred =>
        /\ Offset # 0
        /\ Offset = (IF TodayIndex = TargetIndex THEN 7
                     ELSE (TargetIndex - TodayIndex) % 7)
        /\ Offset \in 1..7
        /\ next_date.day % 7 = TargetIndex

\* a target earlier in the week than today: Sunday to Monday is 1 day
C13_Witness ==
    /\ Occurred
    /\ TodayIndex = 6
    /\ target_day = "Monday"
    /\ Offset = 1

---------------------------------------------------------------------------
(* simulate.py: calculate_current_trajectory.  baseline_mood is held in    *)
(* units of 1/(100 * TrajectoryScale), consistency in units of             *)
(* 1/TrajectoryScale.                                                      *)

\* echoes[:14], consistency = len(recent_echoes) / 14
TREND_WINDOW == 14

\* echoes[14:28]
TREND_HISTORY == 28

\* older_avg + 0.1, older_avg - 0.1 (hundredths)
TREND_MARGIN == 10

\* timedelta(days=7)
ACTIVITY_DAYS == 7

\* every mean of 1..TREND_WINDOW scores is a whole number of 1/TrajectoryScale
TrajectoryScale == LcmUpTo(TREND_WINDOW)

\* the dict returned for an empty series
no_echoes == [baseline_mood |-> 0, trend |-> "neutral", activity_frequency |-> 0]

\* echoes[a:b]
Slice(s, a, b) == SubSeq(s, a + 1, Min(b, Len(s)))

\* recent_echoes = echoes[:14]
trajectory_recent_echoes(es) == Prefix(es, TREND_WINDOW)

\* faulty variant: every record past the recent window is history
older_echoes_uncapped(es) ==
    IF Len(es) > TREND_WINDOW THEN Slice(es, TREND_WINDOW, Len(es)) ELSE <<>>

\* older_echoes = echoes[14:28] if len(echoes) > 14 else []
older_echoes(es) ==
    IF Len(es) > TREND_WINDOW THEN Slice(es, TREND_WINDOW, TREND_HISTORY) ELSE <<>>

\* sum(e.mood_score for e in es) / len(es), scaled
mean_mood(es) ==
    (sum([i \in 1..Len(es) |-> es[i].mood_score]) * TrajectoryScale) \div Len(es)

\* recent_avg
trajectory_recent_avg(es) == mean_mood(trajectory_recent_echoes(es))

\* faulty variant: no history counts as a mean of 0
older_avg_zero(es) ==
    IF older_echoes(es) # <<>> THEN mean_mood(older_echoes(es)) ELSE 0

\* older_avg
older_avg(es) ==
    IF older_echoes(es) # <<>> THEN mean_mood(older_echoes(es))
    ELSE trajectory_recent_avg(es)

\* faulty variant: a difference of exactly the margin already counts
trend_inclusive(es) ==
    IF trajectory_recent_avg(es) >= older_avg(es) + TREND_MARGIN * TrajectoryScale
    THEN "improving"
    ELSE IF trajectory_recent_avg(es) <= older_avg(es) - TREND_MARGIN * TrajectoryScale
    THEN "declining"
    ELSE "stable"

\* trend
trend(es) ==
    IF trajectory_recent_avg(es) > older_avg(es) + TREND_MARGIN * TrajectoryScale
    THEN "improving"
    ELSE IF trajectory_recent_avg(es) < older_avg(es) - TREND_MARGIN * TrajectoryScale
    THEN "declining"
    ELSE "stable"

\* faulty variant: an activity completed exactly 7 days ago is left out
activity_freq_strict(acts, utcnow) ==
    Cardinality({i \in 1..Len(acts) : acts[i].completed_at > utcnow - ACTIVITY_DAYS})

\* activity_freq
activity_freq(acts, utcnow) ==
    Cardinality({i \in 1..Len(acts) : acts[i].completed_at >= utcnow - ACTIVITY_DAYS})

\* faulty variant: the whole series is counted
consistency_uncapped(es) == (Len(es) * TrajectoryScale) \div TREND_WINDOW

\* len(recent_echoes) / 14, scaled
consistency(es) == (Len(trajectory_recent_echoes(es)) * TrajectoryScale) \div TREND_WINDOW

\* faulty variant: the activities are counted for an empty series too
calculate_current_trajectory_counting(es, acts, utcnow) ==
    IF es = <<>> THEN [no_echoes EXCEPT !.activity_frequency = activity_freq(acts, utcnow)]
    ELSE [baseline_mood      |-> trajectory_recent_avg(es),
          trend              |-> trend(es),
          activity_frequency |-> activity_freq(acts, utcnow),
          echo_count         |-> Len(es),
          consistency        |-> consistency(es)]

calculate_current_trajectory(es, acts, utcnow) ==
    IF es = <<>> THEN no_echoes
    ELSE [baseline_mood      |-> trajectory_recent_avg(es),
          trend              |-> trend(es),
          activity_frequency |-> activity_freq(acts, utcnow),
          echo_count         |-> Len(es),
          consistency        |-> consistency(es)]

---------------------------------------------------------------------------
(* Specification of calculate_current_trajectory: called once on a         *)
(* newest-first series whose two halves of the recent window, history and  *)
(* tail each carry one mood score, with up to MaxActivities activities.    *)

\* mood scores (hundredths) the trajectory series are drawn from
TrajectoryMoods == {0, 5, 10, 40}

\* completion days of the activities
ActivityDays == {3, 4}

\* days on which the trajectory is computed
TrajectoryDays == {10, 11}

\* series of n records: r1 and r2 alternate in the recent window, o fills
\* the history, t the records past it
TrajectorySeries(n, r1, r2, o, t) ==
    [i \in 1..n |->
        [mood_score |-> IF i > TREND_HISTORY THEN t
                        ELSE IF i > TREND_WINDOW THEN o
                        ELSE IF i % 2 = 1 THEN r1 ELSE r2]]

InitTrajectory ==
    /\ \E n \in 0..MaxTrajectoryEchoes :
       \E r1 \in TrajectoryMoods, r2 \in TrajectoryMoods,
          o \in TrajectoryMoods, t \in TrajectoryMoods :
          echoes = TrajectorySeries(n, r1, r2, o, t)
    /\ \E k \in 0..MaxActivities :
       \E days \in [1..k -> ActivityDays] :
          activities = [i \in 1..k |-> [completed_at |-> days[i]]]
    /\ now \in TrajectoryDays
    /\ pattern = None
    /\ pattern_analysis = None
    /\ target_day = "Monday"
    /\ next_date = None
    /\ current_state = None
    /\ simulation_response = None
    /\ NoRequest

CalculateCurrentTrajectory ==
    /\ current_state' = calculate_current_trajectory(echoes, activities, now)
    /\ UNCHANGED <<echoes, pattern, pattern_analysis, now, target_day,
                   next_date, activities, simulation_response, endpoint_vars>>

NextTrajectory == CalculateCurrentTrajectory

SpecTrajectory == InitTrajectory /\ [][NextTrajectory]_vars

---------------------------------------------------------------------------
(* Properties of calculate_current_trajectory, stated on the series and    *)
(* the activities themselves.                                              *)

\* calculate_current_trajectory has returned
Estimated == current_state # None

\* number of records in the recent window (records 0..13)
RecentLen == IF Len(echoes) < 14 THEN Len(echoes) ELSE 14

\* number of records in the older window (records 14..27)
OlderLen ==
    IF Len(echoes) <= 14 THEN 0
    ELSE IF Len(echoes) < 28 THEN Len(echoes) - 14 ELSE 14

\* sum of the mood scores of the records a..b (counted from 1)
MoodSum(a, b) == SumOver({i \in a..b : i <= Len(echoes)})

\* C14 as stated: for an empty series the result is trend "stable",
\* baseline mood 0 and activity frequency 0, whatever the activities.
C14_EmptyIsStable ==
    (Estimated /\ echoes = <<>>) =>
        /\ current_state.trend = "stable"
        /\ current_state.baseline_mood = 0
        /\ current_state.activity_frequency = 0

\* C14 amended: for an empty series the result is trend "neutral", baseline
\* mood 0 and activity frequency 0, whatever the activities.
C14_EmptyIsNeutral ==
    (Estimated /\ echoes = <<>>) =>
        /\ current_state.trend = "neutral"
        /\ current_state.baseline_mood = 0
        /\ current_state.activity_frequency = 0

\* an empty series with two activities inside the trailing 7 days
C14_Witness ==
    /\ Estimated
    /\ echoes = <<>>
    /\ Len(activities) = 2
    /\ \A i \in 1..2 : activities[i].completed_at >= now - 7
    /\ current_state.activity_frequency = 0

C15_WitnessBoundary ==
    /\ Estimated
    /\ Len(echoes) > 28
    /\ MoodSum(15, 28) = MoodSum(1, 14) + 14 * 10
    /\ echoes[29].mood_score # echoes[28].mood_score
    /\ current_state.trend = "stable"

\* C16: for a series of 1 to 14 records the trend is stable, whatever the
\* mood scores.
C16_NoHistoryIsStable ==
    (Estimated /\ Len(echoes) \in 1..14) => current_state.trend = "stable"

\* 14 records averaging 0.4: far above 0, and still stable
C16_Witness ==
    /\ Estimated
    /\ Len(echoes) = 14
    /\ MoodSum(1, 14) = 14 * 40
    /\ current_state.trend = "stable"

\* C17: for a non-empty series of n records the consistency is
\* min(n, 14) / 14; it lies in (0, 1] and is 1 exactly when n >= 14.
C17_Consistency ==
    (Estimated /\ echoes # <<>>) =>
        /\ current_state.consistency * 14 = RecentLen * TrajectoryScale
        /\ current_state.consistency > 0
        /\ current_state.consistency <= TrajectoryScale
        /\ current_state.consistency = TrajectoryScale <=> Len(echoes) >= 14

\* a series longer than the recent window has consistency 1
C17_Witness ==
    /\ Estimated
    /\ Len(echoes) = 20
    /\ current_state.consistency = TrajectoryScale

\* a series of 7 records has consistency 1/2
C17_WitnessHalf ==
    /\ Estimated
    /\ Len(echoes) = 7
    /\ current_state.consistency * 2 = TrajectoryScale

\* C18: for a non-empty series activity_frequency is the number of
\* activities completed not earlier than 7 days before the evaluation
\* instant, a count between 0 and the number of activities, whatever the
\* echo records are.
C18_ActivityFrequency ==
    (Estimated /\ echoes # <<>>) =>
        /\ current_state.activity_frequency =
               Cardinality({i \in 1..Len(activities) :
                               activities[i].completed_at >= now - 7})
        /\ current_state.activity_frequency >= 0
        /\ current_state.activity_frequency <= Len(activities)

\* one activity completed exactly 7 days ago and one the day before that
C18_Witness ==
    /\ Estimated
    /\ echoes # <<>>
    /\ Len(activities) = 2
    /\ activities[1].completed_at = now - 7
    /\ activities[2].completed_at = now - 8
    /\ current_state.activity_frequency = 1

---------------------------------------------------------------------------
(* simulate.py: generate_scenario_simulations, as far as it reads          *)
(* current_state.  The prompt text and the scenarios are left out.         *)

\* current_state[...] in the prompt
prompt_fields == {"baseline_mood", "trend", "activity_frequency", "consistency"}

\* the outcome: KeyError out of the prompt, or the dict returned after the
\* model answered (success) or failed (fallback scenarios)
generate_scenario_simulations(state, answered) ==
    IF ~(prompt_fields \subseteq DOMAIN state) THEN [raised |-> "KeyError"]
    ELSE [success |-> answered, baseline_state |-> state]

---------------------------------------------------------------------------
(* Specification of the engine in use: the analyzers are invoked in any    *)
(* order, any number of times, on one user's data while the clock moves    *)
(* on.  Each variable holds what the latest invocation returned.           *)

\* echoes the series are drawn from
EngineEchoes ==
    { [created_at |-> 3, mood_score |-> -100, emotion_tags |-> <<"sad">>],
      [created_at |-> 4, mood_score |-> 10,   emotion_tags |-> <<>>] }

\* weekday names asked for
TargetDays == {"Friday", "Sunday"}

InitEngine ==
    /\ \E n \in 0..MaxEngineEchoes : echoes \in [1..n -> EngineEchoes]
    /\ \E k \in 0..1 : activities = [i \in 1..k |-> [completed_at |-> 3]]
    /\ target_day \in TargetDays
    /\ now \in TrajectoryDays
    /\ pattern = None
    /\ pattern_analysis = None
    /\ next_date = None
    /\ current_state = None
    /\ simulation_response = None
    /\ NoRequest

\* a day passes
Tick ==
    /\ now < MaxToday
    /\ now' = now + 1
    /\ UNCHANGED <<echoes, pattern, pattern_analysis, target_day, next_date,
                   activities, current_state, simulation_response, endpoint_vars>>

GenerateScenarioSimulations ==
    /\ current_state # None
    /\ \E answered \in BOOLEAN :
          simulation_response' = generate_scenario_simulations(current_state, answered)
    /\ UNCHANGED <<echoes, pattern, pattern_analysis, now, target_day, next_date,
                   activities, current_state, endpoint_vars>>

NextEngine ==
    \/ Tick
    \/ AnalyzeMoodPattern
    \/ AnalyzeDayOfWeekPatterns
    \/ GetNextOccurrence
    \/ CalculateCurrentTrajectory
    \/ GenerateScenarioSimulations

SpecEngine == InitEngine /\ [][NextEngine]_vars

---------------------------------------------------------------------------
(* Properties of the engine in use.  The arguments of the analyzers never  *)
(* change in a behaviour, so a result that differs from the one held       *)
(* before is a second invocation on identical arguments answering          *)
(* differently.                                                            *)

\* C19 as stated: every invocation of analyze_day_of_week_patterns,
\* get_next_occurrence, calculate_current_trajectory or
\* analyze_mood_pattern returns what the earlier invocations on the same
\* arguments returned, at whatever moment it is made.
C19_AllReproducible ==
    [][ /\ pattern # None => pattern' = pattern
        /\ pattern_analysis # None => pattern_analysis' = pattern_analysis
        /\ next_date # None => next_date' = next_date
        /\ current_state # None => current_state' = current_state ]_vars

\* C19 amended: every invocation of analyze_day_of_week_patterns or
\* analyze_mood_pattern returns what the earlier invocations on the same
\* arguments returned, at whatever moment it is made.  An invocation of
\* get_next_occurrence returns the date for the day of the call, and one of
\* calculate_current_trajectory differs from the earlier ones in
\* activity_frequency alone, which is the count for the day of the call.
C19_ClockFreeReproducible ==
    [][ /\ pattern # None => pattern' = pattern
        /\ pattern_analysis # None => pattern_analysis' = pattern_analysis
        /\ next_date' # next_date =>
              /\ next_date'.day - now \in 1..7
              /\ next_date'.day % 7 = TargetIndex
        /\ current_state # None =>
              [current_state' EXCEPT !.activity_frequency = 0]
                  = [current_state EXCEPT !.activity_frequency = 0]
        /\ (current_state' # current_state /\ echoes # <<>>) =>
              current_state'.activity_frequency =
                  Cardinality({i \in 1..Len(activities) :
                                  activities[i].completed_at >= now - 7}) ]_vars

\* all four analyzers have answered on a three-record series and the clock
\* has moved on since: the date held is not the one get_next_occurrence
\* gives now
C19_Witness ==
    /\ Len(echoes) = 3
    /\ pattern # None
    /\ pattern.pattern_type # "insufficient_data"
    /\ pattern_analysis # None
    /\ pattern_analysis.day_patterns # <<>>
    /\ current_state # None
    /\ next_date # None
    /\ next_date.day - now \notin 1..7

\* C20 as stated: on an empty or single-record series the aggregator
\* returns no day statistics, an empty challenging list and has_patterns =
\* false, the detector returns insufficient_data, the trajectory estimator
\* returns baseline, trend, activity frequency and consistency, and the
\* narrative step reading those fields does not raise.
C20_SmallSeriesWellFormed ==
    Len(echoes) <= 1 =>
        /\ pattern_analysis # None =>
              /\ pattern_analysis.day_patterns = <<>>
              /\ pattern_analysis.challenging_days = <<>>
              /\ pattern_analysis.has_patterns = FALSE
        /\ pattern # None =>
              /\ pattern.pattern_type = "insufficient_data"
              /\ pattern.needs_intervention = FALSE
        /\ current_state # None =>
              {"baseline_mood", "trend", "activity_frequency", "consistency"}
                  \subseteq DOMAIN current_state
        /\ simulation_response # None => "raised" \notin DOMAIN simulation_response

---------------------------------------------------------------------------
(* Further properties of analyze_mood_pattern, under SpecWhisperer.        *)

\* the classification fields of a report
Classification(report) ==
    [f \in {"needs_intervention", "pattern_type", "severity",
            "low_mood_days", "avg_mood"} |-> report[f]]

\* the series cut after its 7 most recent records
FirstSeven == SubSeq(echoes, 1, WindowLen)

\* C22: for a series of at least 3 records, pattern, severity,
\* needs_intervention, lowMoodDays and avgMood are those of the series cut
\* after its 7 most recent records: the records at index 7 and beyond play
\* no part, so two series agreeing on their first 7 records are classified
\* alike.
C22_OnlySevenRecent ==
    (Analyzed /\ Len(echoes) >= 3) =>
        /\ Classification(pattern) = Classification(analyze_mood_pattern(FirstSeven))
        /\ pattern.low_mood_days = LowMoodDays
        /\ pattern.avg_mood * WindowLen = WindowSum * WindowScale

\* an eighth record of -1.0 after a window with two low days: counted, it
\* would be the third low day
C22_Witness ==
    /\ Analyzed
    /\ Len(echoes) = 8
    /\ echoes[8].mood_score = -100
    /\ LowMoodDays = 2
    /\ pattern.pattern_type = "stable"

\* the emotion-tag lists of the 3 most recent records, in series order
FirstThreeTags == [i \in 1..Min(3, Len(echoes)) |-> echoes[i].emotion_tags]

\* C23 as stated: every report carries the emotion-tag lists of the 3 most
\* recent records, in series order and unmodified.
C23_EveryReportHasEmotions ==
    Analyzed =>
        /\ "recent_emotions" \in DOMAIN pattern
        /\ pattern.recent_emotions = FirstThreeTags

\* C23 amended: every report on a series of at least 3 records carries the
\* emotion-tag lists of the 3 most recent records, in series order and
\* unmodified; the insufficient_data report carries no emotion tags.
C23_ReportHasEmotionsFromThree ==
    Analyzed =>
        IF Len(echoes) >= 3
        THEN /\ "recent_emotions" \in DOMAIN pattern
             /\ pattern.recent_emotions =
                    <<echoes[1].emotion_tags, echoes[2].emotion_tags,
                      echoes[3].emotion_tags>>
        ELSE "recent_emotions" \notin DOMAIN pattern

\* a report on 5 records: an empty list and a list with a duplicate are
\* carried as they are, the tags of the fourth record are not
C23_Witness ==
    /\ Analyzed
    /\ Len(echoes) = 5
    /\ echoes[4].emotion_tags # <<>>
    /\ pattern.recent_emotions = << <<"sad", "tired">>, <<>>, <<"anxious", "anxious">> >>

\* C29: in every report needs_intervention holds iff severity > 0 iff
\* pattern_type is declining_trend, persistent_low or sudden_drop, and
\* severity is 0, 3, 4 or 5.
C29_SeverityValues ==
    Analyzed =>
        /\ pattern.needs_intervention <=> pattern.severity > 0
        /\ pattern.needs_intervention <=>
               pattern.pattern_type \in {"declining_trend", "persistent_low", "sudden_drop"}
        /\ pattern.severity \in {0, 3, 4, 5}

\* seven low days in the window: severity stays 5
C29_Witness ==
    /\ Analyzed
    /\ LowMoodDays = 7
    /\ pattern.needs_intervention
    /\ pattern.severity = 5

\* C30: for a series of exactly 3 records the report is declining_trend,
\* persistent_low or stable, never sudden_drop; sudden_drop needs at least
\* 4 records in the window; and once the insufficient-data check has
\* passed the window holds at least 3 records.
C30_NoSuddenDropOnThree ==
    Analyzed =>
        /\ Len(echoes) = 3 =>
               pattern.pattern_type \in {"declining_trend", "persistent_low", "stable"}
        /\ pattern.pattern_type = "sudden_drop" => WindowLen >= 4
        /\ pattern.pattern_type # "insufficient_data" => WindowLen >= 3

\* 3 records averaging below -0.2 with two low days: neither rule a nor
\* rule b fires, and the report is stable
C30_Witness ==
    /\ Analyzed
    /\ Len(echoes) = 3
    /\ FirstThreeSum < -20 * 3
    /\ ~RuleA
    /\ ~RuleB
    /\ pattern.pattern_type = "stable"

\* 4 records are enough for sudden_drop
C30_WitnessFour ==
    /\ Analyzed
    /\ Len(echoes) = 4
    /\ pattern.pattern_type = "sudden_drop"

---------------------------------------------------------------------------
(* Specification of the day-of-week analysis on long series: up to         *)
(* MaxWeekdayEchoes echoes of one mood score, falling on up to three       *)
(* weekdays, are handed to analyze_day_of_week_patterns.                   *)

\* mood scores (hundredths) of the long series: below and at the threshold
WeekdayMoods == {-25, -10}

\* a records on day d1, then b on day d2, then c on day d3, all of mood m
WeekdaySeries(d1, a, d2, b, d3, c, m) ==
    [i \in 1..(a + b + c) |->
        [created_at |-> IF i <= a THEN d1 ELSE IF i <= a + b THEN d2 ELSE d3,
         mood_score |-> m]]

InitWeekdays ==
    /\ \E d1 \in 0..6, d2 \in 0..6, d3 \in 0..6 :
       \E a \in 0..MaxWeekdayEchoes, b \in 0..MaxWeekdayEchoes, c \in 0..MaxWeekdayEchoes :
       \E m \in WeekdayMoods :
          /\ d1 < d2
          /\ d2 < d3
          /\ a + b + c <= MaxWeekdayEchoes
          /\ echoes = WeekdaySeries(d1, a, d2, b, d3, c, m)
    /\ pattern = None
    /\ pattern_analysis = None
    /\ now = 0
    /\ target_day = "Monday"
    /\ next_date = None
    /\ activities = <<>>
    /\ current_state = None
    /\ simulation_response = None
    /\ NoRequest

NextWeekdays == AnalyzeDayOfWeekPatterns

SpecWeekdays == InitWeekdays /\ [][NextWeekdays]_vars

---------------------------------------------------------------------------
(* The scenario of 14 records of -0.25 on 3 weekdays.                      *)

\* the weekdays on which records of the series fall
WeekdaysUsed == {w \in WeekdayNames : RecordsOn(w) # {}}

\* 14 records, all -0.25, on exactly 3 weekdays with at least 2 records each
FourteenOnThree ==
    /\ Len(echoes) = 14
    /\ \A i \in 1..Len(echoes) : echoes[i].mood_score = -25
    /\ Cardinality(WeekdaysUsed) = 3
    /\ \A w \in WeekdaysUsed : Cardinality(RecordsOn(w)) >= 2

\* the weekdays listed as challenging
ChallengingNames ==
    {pattern_analysis.challenging_days[i].day :
        i \in 1..Len(pattern_analysis.challenging_days)}

\* C27 as stated: in the scenario exactly the 3 weekdays are challenging,
\* each with mean -0.25 and confidence count / 5.
C27_ConfidenceIsCountOverFive ==
    (DaysAnalyzed /\ FourteenOnThree) =>
        /\ ChallengingNames = WeekdaysUsed
        /\ Len(pattern_analysis.challenging_days) = 3
        /\ \A i \in 1..Len(pattern_analysis.challenging_days) :
             LET c == pattern_analysis.challenging_days[i]
             IN  /\ c.avg_mood = -25 * DayScale
                 /\ c.confidence * 5 = 100 * Cardinality(RecordsOn(c.day))

\* C27 amended: in the scenario exactly the 3 weekdays are challenging,
\* each with mean -0.25 and confidence min(count / 5, 1.0).
C27_ConfidenceIsCapped ==
    (DaysAnalyzed /\ FourteenOnThree) =>
        /\ ChallengingNames = WeekdaysUsed
        /\ Len(pattern_analysis.challenging_days) = 3
        /\ \A i \in 1..Len(pattern_analysis.challenging_days) :
             LET c == pattern_analysis.challenging_days[i]
                 n == Cardinality(RecordsOn(c.day))
             IN  /\ c.avg_mood = -25 * DayScale
                 /\ c.confidence * 5 = (IF n > 5 THEN 500 ELSE 100 * n)

\* the scenario with 10 records on one weekday and 2 on each of two others
C27_Witness ==
    /\ DaysAnalyzed
    /\ FourteenOnThree
    /\ \E w \in WeekdaysUsed : Cardinality(RecordsOn(w)) = 10
    /\ \E i \in 1..3 : /\ pattern_analysis.challenging_days[i].sample_size = 10
                       /\ pattern_analysis.challenging_days[i].confidence = 100
    /\ \E i \in 1..3 : pattern_analysis.challenging_days[i].confidence = 40

---------------------------------------------------------------------------
(* Well-formedness of the series that reach analyze_day_of_week_patterns,  *)
(* under SpecPatterns: the rows are handed over as the query returns them. *)

\* the timestamps of the series never increase or never decrease
MonotonicTimestamps ==
    \/ \A i \in 1..(Len(echoes) - 1) : echoes[i].created_at >= echoes[i + 1].created_at
    \/ \A i \in 1..(Len(echoes) - 1) : echoes[i].created_at <= echoes[i + 1].created_at

\* every mood score lies in [-1.0, 1.0]
ScoresInRange == \A i \in 1..Len(echoes) : echoes[i].mood_score \in -100..100

\* C21: a series with a mood score outside [-1.0, 1.0] or with timestamps
\* that are not monotonic never gets a report from an analyzer.
C21_MalformedSeriesRejected ==
    DaysAnalyzed => (ScoresInRange /\ MonotonicTimestamps)

---------------------------------------------------------------------------
(* The endpoints predict_challenging_days (patterns.py), check_patterns    *)
(* (whisperer.py) and simulate_futures (simulate.py).  The texts of the    *)
(* narratives and of the messages are left out.                            *)

\* datetime.utcnow() - timedelta(days=60)
LOOKBACK_DAYS == 60

\* if len(echoes) < 14, "min_required": 14
MIN_PREDICT_ECHOES == 14

\* pattern_analysis['challenging_days'][:2]
TOP_DAYS == 2

\* datetime.utcnow() - timedelta(days=7)
WHISPERER_DAYS == 7

\* .limit(30)
ECHO_LIMIT == 30

\* pattern.get('severity', 3)
DEFAULT_SEVERITY == 3

NOT_FOUND == 404

INTERNAL_ERROR == 500

HTTPException(status_code, detail) == [status_code |-> status_code, detail |-> detail]

\* raise HTTPException(status_code=404, detail="User profile not found")
profile_not_found == HTTPException(NOT_FOUND, "User profile not found")

\* except Exception as e: raise HTTPException(status_code=500,
\*                                            detail=f"{what} failed: {str(e)}")
failed(what, e) == HTTPException(INTERNAL_ERROR, <<what, e>>)

\* d.get(key, default)
get(d, key, default) == IF key \in DOMAIN d THEN d[key] ELSE default

\* .where(Echo.created_at >= since)
created_since(rows, since) == SelectSeq(rows, LAMBDA e : e.created_at >= since)

\* x put behind every row of the sorted list that is not older
insort_desc(sorted, x) ==
    LET k == Cardinality({i \in 1..Len(sorted) : sorted[i].created_at >= x.created_at})
    IN  SubSeq(sorted, 1, k) \o <<x>> \o SubSeq(sorted, k + 1, Len(sorted))

\* .order_by(desc(Echo.created_at)); rows of one created_at stay in order
RECURSIVE order_by_desc(_)
order_by_desc(rows) ==
    IF Len(rows) = 0 THEN <<>>
    ELSE insort_desc(order_by_desc(SubSeq(rows, 1, Len(rows) - 1)), rows[Len(rows)])

\* faulty variant: the fallback story carries no confidence
generate_shield_story_bare_fallback(day, mood_context, today, answered) ==
    [success       |-> answered,
     predicted_day |-> day,
     next_date     |-> get_next_occurrence(day, today),
     confidence    |-> IF answered THEN get(mood_context, "confidence", 0) ELSE 0]

\* the dict returned after the model answered (success) or failed (fallback)
generate_shield_story(day, mood_context, today, answered) ==
    [success       |-> answered,
     predicted_day |-> day,
     next_date     |-> get_next_occurrence(day, today),
     confidence    |-> get(mood_context, "confidence", 0)]

\* the dict returned after the model answered (success) or failed (fallback)
generate_whisperer_nudge(report, answered) ==
    [success  |-> answered,
     pattern  |-> get(report, "pattern_type", "unknown"),
     severity |-> get(report, "severity", DEFAULT_SEVERITY)]

\* faulty variant: the analysis runs on fewer than 14 echoes too
too_few_echoes_never(fetched) == FALSE

\* if len(echoes) < 14
too_few_echoes(fetched) == Len(fetched) < MIN_PREDICT_ECHOES

\* the other endpoints have not run in this request
NotPredicting == predictions' = <<>> /\ pattern_analysis' = None

NotChecking == pattern' = None /\ nudge_response' = None

NotSimulating == current_state' = None /\ simulation_response' = None

PredictChallengingDays ==
    LET fetched == created_since(echoes, now - LOOKBACK_DAYS)
    IN  /\ route' = "/predict"
        /\ NotChecking
        /\ NotSimulating
        /\ IF too_few_echoes(fetched)
           THEN /\ NotPredicting
                /\ response' = [has_predictions |-> FALSE,
                                echoes_count    |-> Len(fetched),
                                min_required    |-> MIN_PREDICT_ECHOES]
           ELSE IF profile = None
           THEN /\ NotPredicting
                /\ response' = failed("Prediction", profile_not_found)
           ELSE LET analysis == analyze_day_of_week_patterns(fetched)
                    top      == Prefix(analysis.challenging_days, TOP_DAYS)
                IN  /\ pattern_analysis' = analysis
                    /\ IF ~analysis.has_patterns
                       THEN /\ predictions' = <<>>
                            /\ response' = [has_predictions |-> FALSE,
                                            day_patterns    |-> analysis.day_patterns]
                       ELSE \E answered \in [1..Len(top) -> BOOLEAN] :
                              LET stories == [i \in 1..Len(top) |->
                                     generate_shield_story(top[i].day, top[i], now,
                                                           answered[i])]
                              IN  /\ predictions' = stories
                                  /\ response' = [has_predictions  |-> TRUE,
                                                  predictions      |-> stories,
                                                  pattern_analysis |-> analysis,
                                                  timestamp        |-> now]
        /\ UNCHANGED <<echoes, now, target_day, next_date, activities, profile>>

CheckPatterns ==
    LET fetched == order_by_desc(created_since(echoes, now - WHISPERER_DAYS))
    IN  /\ route' = "/check-patterns"
        /\ NotPredicting
        /\ NotSimulating
        /\ IF profile = None
           THEN /\ NotChecking
                /\ response' = failed("Whisperer check", profile_not_found)
           ELSE LET report == analyze_mood_pattern(fetched)
                IN  /\ pattern' = report
                    /\ IF report.needs_intervention
                       THEN \E answered \in BOOLEAN :
                              LET nudge == generate_whisperer_nudge(report, answered)
                              IN  /\ nudge_response' = nudge
                                  /\ response' = [needs_intervention |-> TRUE,
                                                  pattern   |-> report,
                                                  nudge     |-> nudge.success,
                                                  severity  |-> report.severity,
                                                  timestamp |-> now]
                       ELSE /\ nudge_response' = None
                            /\ response' = [needs_intervention |-> FALSE,
                                            pattern   |-> report,
                                            timestamp |-> now]
        /\ UNCHANGED <<echoes, now, target_day, next_date, activities, profile>>

SimulateFutures ==
    LET fetched == Prefix(order_by_desc(echoes), ECHO_LIMIT)
    IN  /\ route' = "/futures"
        /\ NotPredicting
        /\ NotChecking
        /\ IF profile = None
           THEN /\ NotSimulating
                /\ response' = failed("Simulation", profile_not_found)
           ELSE LET state == calculate_current_trajectory(fetched, activities, now)
                IN  /\ current_state' = state
                    /\ \E answered \in BOOLEAN :
                         LET simulated == generate_scenario_simulations(state, answered)
                         IN  /\ simulation_response' = simulated
                             /\ response' =
                                   IF "raised" \in DOMAIN simulated
                                   THEN failed("Simulation", simulated)
                                   ELSE [success        |-> simulated.success,
                                         baseline_state |-> simulated.baseline_state,
                                         timestamp      |-> now]
        /\ UNCHANGED <<echoes, now, target_day, next_date, activities, profile>>

---------------------------------------------------------------------------
(* Specification of the endpoints: one user's echoes (on a Monday, a       *)
(* Saturday and a Sunday of one week, all of one mood score, at most 2 on  *)
(* the Saturday), with or without a profile, and requests to the three     *)
(* endpoints.                                                              *)

\* days on which the requests are made: the Sunday, and 55 days later
RequestDays == {6, 61}

\* a echoes on day 0, then b on day 5, then c on day 6, all of mood m
EndpointSeries(a, b, c, m) ==
    [i \in 1..(a + b + c) |->
        LET day == IF i <= a THEN 0 ELSE IF i <= a + b THEN 5 ELSE 6
        IN  [created_at   |-> day,
             mood_score   |-> m,
             emotion_tags |-> EmotionTagsAt(day)]]

InitEndpoints ==
    /\ \E a \in 0..MaxWeekdayEchoes, b \in 0..TOP_DAYS, c \in 0..MaxWeekdayEchoes :
       \E m \in WeekdayMoods :
          /\ a + b + c <= MaxWeekdayEchoes
          /\ echoes = EndpointSeries(a, b, c, m)
    /\ \E k \in 0..1 : activities = [i \in 1..k |-> [completed_at |-> 3]]
    /\ profile \in {None, [wellness_score |-> 50]}
    /\ now \in RequestDays
    /\ target_day = "Monday"
    /\ pattern = None
    /\ pattern_analysis = None
    /\ next_date = None
    /\ current_state = None
    /\ simulation_response = None
    /\ route = ""
    /\ response = None
    /\ predictions = <<>>
    /\ nudge_response = None

NextEndpoints ==
    \/ PredictChallengingDays
    \/ CheckPatterns
    \/ SimulateFutures

SpecEndpoints == InitEndpoints /\ [][NextEndpoints]_vars

---------------------------------------------------------------------------
(* Properties of the endpoints.                                            *)

\* the echoes of the 60 days before the request
InLookback == {i \in 1..Len(echoes) : echoes[i].created_at >= now - 60}

\* the weekdays with at least 2 echoes in the lookback
WeekdaysWithTwo ==
    {w \in WeekdayNames : Cardinality(RecordsOn(w) \cap InLookback) >= 2}

\* C24: with fewer than 14 echoes in the 60-day lookback
\* predict_challenging_days invokes neither the aggregator nor the
\* narrative generator and returns has_predictions = false with the echo
\* count and min_required = 14; with 14 or more (and a profile) the
\* aggregator runs and applies no minimum but 2 echoes per weekday.
C24_GateAtFourteen ==
    route = "/predict" =>
        /\ Cardinality(InLookback) < 14 =>
              /\ pattern_analysis = None
              /\ predictions = <<>>
              /\ response = [has_predictions |-> FALSE,
                             echoes_count    |-> Cardinality(InLookback),
                             min_required    |-> 14]
        /\ (Cardinality(InLookback) >= 14 /\ profile # None) =>
              /\ pattern_analysis # None
              /\ {pattern_analysis.day_patterns[i].day :
                      i \in 1..Len(pattern_analysis.day_patterns)} = WeekdaysWithTwo

\* 14 echoes of -0.25 are stored, 13 of them within the lookback
C24_Witness ==
    /\ route = "/predict"
    /\ Len(echoes) = 14
    /\ \A i \in 1..14 : echoes[i].mood_score = -25
    /\ Cardinality(InLookback) = 13
    /\ profile # None
    /\ response.has_predictions = FALSE
    /\ response.echoes_count = 13

\* 14 echoes in the lookback, 2 of them on one weekday: the gate is passed
\* and that weekday gets its statistics
C24_WitnessPassed ==
    /\ route = "/predict"
    /\ profile # None
    /\ Cardinality(InLookback) = 14
    /\ \E w \in WeekdaysWithTwo : Cardinality(RecordsOn(w)) = 2
    /\ response.has_predictions = TRUE

\* the challenging days a shield story is written for
TopChallenging ==
    SubSeq(pattern_analysis.challenging_days, 1,
           Min(2, Len(pattern_analysis.challenging_days)))

\* the date get_next_occurrence gives for weekday w on the day of the request
NextDateOf(w) ==
    LET target == CHOOSE i \in 0..6 : days_of_week[i + 1] = w
        ahead  == (target - (now % 7)) % 7
    IN  now + (IF ahead = 0 THEN 7 ELSE ahead)

\* C25: whether the narrative collaborator answered or failed, each shield
\* story carries the predicted_day and confidence of its challenging day and
\* that day's next date, the nudge carries the pattern and severity of the
\* report, and the simulation carries the trajectory as baseline_state: the
\* fallback response has the structured fields of the successful one.
C25_FallbackKeepsAnalysis ==
    /\ predictions # <<>> =>
          /\ Len(predictions) = Len(TopChallenging)
          /\ \A i \in 1..Len(predictions) :
               /\ predictions[i].predicted_day = TopChallenging[i].day
               /\ predictions[i].confidence = TopChallenging[i].confidence
               /\ predictions[i].next_date = NextDateOf(TopChallenging[i].day)
          /\ response.predictions = predictions
          /\ response.pattern_analysis = pattern_analysis
    /\ nudge_response # None =>
          /\ nudge_response.pattern = pattern.pattern_type
          /\ nudge_response.severity = pattern.severity
          /\ response.pattern = pattern
          /\ response.severity = pattern.severity
    /\ (simulation_response # None /\ "raised" \notin DOMAIN simulation_response) =>
          /\ simulation_response.baseline_state = current_state
          /\ response.baseline_state = current_state

\* two shield stories, the first one a fallback, the second one not
C25_Witness ==
    /\ Len(predictions) = 2
    /\ predictions[1].success = FALSE
    /\ predictions[2].success = TRUE
    /\ predictions[1].confidence = 100
    /\ predictions[2].confidence = 40

\* a fallback nudge for a declining trend
C25_WitnessNudge ==
    /\ nudge_response # None
    /\ nudge_response.success = FALSE
    /\ nudge_response.pattern = "declining_trend"
    /\ nudge_response.severity = 5

\* fallback scenarios for a trajectory of 14 echoes
C25_WitnessSimulation ==
    /\ simulation_response # None
    /\ "raised" \notin DOMAIN simulation_response
    /\ simulation_response.success = FALSE
    /\ simulation_response.baseline_state.echo_count = 14

\* C28: without a profile, predict_challenging_days (with at least 14
\* echoes), check_patterns and simulate_futures end with the 404 'User
\* profile not found', and neither an analyzer nor a narrative generator is
\* invoked.
C28_ProfileNotFoundIs404 ==
    (/\ profile = None
     /\ route # ""
     /\ route = "/predict" => Cardinality(InLookback) >= 14) =>
        /\ response = [status_code |-> 404, detail |-> "User profile not found"]
        /\ pattern_analysis = None
        /\ pattern = None
        /\ current_state = None
        /\ predictions = <<>>
        /\ nudge_response = None
        /\ simulation_response = None

====
